---- MODULE Spec2Model ----
(* Oracle HCM MCP bridge: configuration cells, the shared request builder   *)
(* hcm_api_call, the four tools and the process bootstrap in main.           *)
(*                                                                           *)
(* A string is a sequence of tokens: data supplied from outside (environment *)
(* values, tool arguments, response texts) is written one character per      *)
(* token, a literal of the source is one token. Concatenation is \o.         *)
(* Option<T> is a sequence of length 0 (None) or 1 (Some).                   *)
EXTENDS Integers, Sequences, FiniteSets, TLC

VARIABLES env, lazy, mainPc, instances, inv, api

vars == <<env, lazy, mainPc, instances, inv, api>>

\* ------------------------------------------------------------------ bounds
MaxInv == 1
MaxSessions == 1
MaxSlots == 2

\* --------------------------------------------------------------- utilities
None == <<>>
Some(x) == <<x>>
IsSome(o) == Len(o) = 1
Unwrap(o) == o[1]

\* number of positions of s at which the token sequence p starts
Occurrences(p, s) ==
    Cardinality({i \in 1..(Len(s) - Len(p) + 1) : SubSeq(s, i, i + Len(p) - 1) = p})

Contains(p, s) == Occurrences(p, s) > 0

\* ----------------------------------------------------- configuration cells
EnvVars == {"HCM_BASE_URL", "HCM_API_VERSION", "REST_FRAMEWORK_VERSION",
            "HCM_USERNAME", "HCM_PASSWORD"}

DQ == "\""
SQ == "'"

RECURSIVE TrimStart(_, _)
TrimStart(s, q) == IF s # <<>> /\ Head(s) \in q THEN TrimStart(Tail(s), q) ELSE s

RECURSIVE TrimEnd(_, _)
TrimEnd(s, q) ==
    IF s # <<>> /\ s[Len(s)] \in q THEN TrimEnd(SubSeq(s, 1, Len(s) - 1), q) ELSE s

\* str::trim_matches: strips every leading and trailing token that is in q
trim_matches(s, q) == TrimEnd(TrimStart(s, q), q)

Uninit == [st |-> "uninit", val |-> <<>>]
OkCell(v) == [st |-> "ok", val |-> v]
ErrCell(m) == [st |-> "err", val |-> m]

load_env_var_lenient(e, key) ==
    IF IsSome(e[key]) THEN OkCell(trim_matches(Unwrap(e[key]), {DQ, SQ}))
    ELSE OkCell(<<>>)

\* Err carries "{key} must be set: {e}"
load_env_var(e, key) ==
    IF IsSome(e[key]) THEN OkCell(trim_matches(Unwrap(e[key]), {DQ, SQ}))
    ELSE ErrCell(<<key, " must be set: ", "environment variable not found">>)

load_env_var_or(e, key, default) ==
    OkCell(trim_matches(IF IsSome(e[key]) THEN Unwrap(e[key]) ELSE default, {DQ}))

DefaultApiVersion == <<"11.13.18.05">>
DefaultFrameworkVersion == <<"9">>
DefaultUsername == <<"WBC_HR_AGENT">>

\* the initialiser closure of each LazyLock configuration static
LazyInit(e, name) ==
    CASE name = "HCM_BASE_URL" -> load_env_var(e, "HCM_BASE_URL")
      [] name = "HCM_PASSWORD" -> load_env_var(e, "HCM_PASSWORD")
      [] name = "HCM_API_VERSION" -> load_env_var_or(e, "HCM_API_VERSION", DefaultApiVersion)
      [] name = "REST_FRAMEWORK_VERSION" ->
            load_env_var_or(e, "REST_FRAMEWORK_VERSION", DefaultFrameworkVersion)
      [] name = "HCM_USERNAME" -> load_env_var_or(e, "HCM_USERNAME", DefaultUsername)

\* a variant that runs the initialiser on every dereference
ForceEveryTime(lz, e, name) == LazyInit(e, name)

\* LazyLock: the first dereference runs the initialiser, later ones read the cell
Force(lz, e, name) == IF lz[name].st = "uninit" THEN LazyInit(e, name) ELSE lz[name]

Touch(lz, e, name) == [lz EXCEPT ![name] = Force(lz, e, name)]

\* the initialiser of HTTP_CLIENT: reqwest::Client::builder().timeout(30s).build(),
\* which can fail (TLS backend); built tells whether build() succeeded
ClientTimeoutSecs == 30

HttpClientInit(built) ==
    IF built THEN OkCell(<<"client">>)
    ELSE ErrCell(<<"Failed to build HTTP client: ", "builder error">>)

\* a variant in which every call builds the client anew and stores it
TouchClientEveryTime(lz, built) == [lz EXCEPT !["HTTP_CLIENT"] = HttpClientInit(built)]

TouchClient(lz, built) ==
    IF lz["HTTP_CLIENT"].st = "uninit"
    THEN [lz EXCEPT !["HTTP_CLIENT"] = HttpClientInit(built)]
    ELSE lz

LazyNames == EnvVars \cup {"HTTP_CLIENT"}

\* ---------------------------------------------------------------- JSON values
JNull == [t |-> "null", v |-> <<>>]
JStr(s) == [t |-> "str", v |-> s]
JBool(b) == [t |-> "bool", v |-> b]
JNum(n) == [t |-> "num", v |-> n]
JArr(a) == [t |-> "arr", v |-> a]
JObj(o) == [t |-> "obj", v |-> o]

\* Option<String> serialises to the string or to null
JOpt(o) == IF IsSome(o) THEN JStr(Unwrap(o)) ELSE JNull

\* serde_json Index: value["key"] is Null unless value is an object with the key
Idx(j, k) == IF j.t = "obj" /\ k \in DOMAIN j.v THEN j.v[k] ELSE JNull

as_str(j) == IF j.t = "str" THEN Some(j.v) ELSE None
as_bool(j) == IF j.t = "bool" THEN Some(j.v) ELSE None
as_array(j) == IF j.t = "arr" THEN Some(j.v) ELSE None

\* ------------------------------------------------------------------- errors
\* HcmError: variant and the text it carries
HcmErr(variant, msg) == [variant |-> variant, msg |-> msg]

\* Result<serde_json::Value, HcmError> of hcm_api_call
ApiOk(j) == [ok |-> TRUE, variant |-> "", msg |-> <<>>, json |-> j]
ApiErr(variant, msg) == [ok |-> FALSE, variant |-> variant, msg |-> msg, json |-> JNull]
NotCalled == [ok |-> FALSE, variant |-> "not_called", msg |-> <<>>, json |-> JNull]

\* Result<CallToolResult, ErrorData> of a tool
ToolOk(j) == [ok |-> TRUE, code |-> "", message |-> <<>>, value |-> j]
ToolErr(code, message) == [ok |-> FALSE, code |-> code, message |-> message, value |-> JNull]

\* impl From<HcmError> for ErrorData
ErrorDataFrom(variant, msg) ==
    CASE variant = "InvalidParams" -> ToolErr("INVALID_PARAMS", msg)
      [] variant = "MissingConfig" -> ToolErr("INTERNAL_ERROR", msg)
      [] variant = "Http" -> ToolErr("INTERNAL_ERROR", <<"HTTP error: ">> \o msg)
      [] variant = "HttpMiddleware" ->
            ToolErr("INTERNAL_ERROR", <<"HTTP middleware error: ">> \o msg)
      [] variant = "Serialization" -> ToolErr("INTERNAL_ERROR", msg)
      [] variant = "Internal" -> ToolErr("INTERNAL_ERROR", msg)

\* ----------------------------------------------------------- request builder
Methods == {"GET", "POST", "PUT", "DELETE"}

ResourceRoot == "/hcmRestApi/resources/"

\* RequestBuilder::basic_auth: Authorization: Basic base64(username ":" password)
Base64(s) == <<"b64[">> \o s \o <<"]">>
\* RequestBuilder::basic_auth: the header is set with its sensitive flag on
BasicAuthHeader(username, password) ==
    [name |-> "Authorization",
     value |-> <<"Basic ">> \o Base64(username \o <<":">> \o password),
     sensitive |-> TRUE]

NoAuthHeaders(username, password) == {}

AuthHeaders(username, password) == {BasicAuthHeader(username, password)}

FrameworkHeadersAlways(enable_framework_version, rf_version) ==
    {[name |-> "REST-Framework-Version", value |-> rf_version, sensitive |-> FALSE]}

FrameworkHeaders(enable_framework_version, rf_version) ==
    IF enable_framework_version
    THEN {[name |-> "REST-Framework-Version", value |-> rf_version, sensitive |-> FALSE]}
    ELSE {}

ContentTypeHeaders(method) ==
    IF method = "POST"
    THEN {[name |-> "Content-Type", value |-> <<"application/vnd.oracle.adf.action+json">>,
           sensitive |-> FALSE]}
    ELSE {}

\* format!("{base}/hcmRestApi/resources/{api_ver}{path}")
ApiUrl(base, api_ver, path) == base \o <<ResourceRoot>> \o api_ver \o path

NoRequest == [method |-> "", url |-> <<>>, body |-> None, headers |-> {}, timeout |-> None]

\* hcm_api_call up to the point where the request is handed to send():
\* lazy is the configuration state after the cells it dereferenced, and out is
\* either the error it returned early or the request it dispatches
Return(lz, call, err) ==
    [lazy |-> lz, sent |-> FALSE, err |-> err, req |-> NoRequest, call |-> call]
Send(lz, call, req) ==
    [lazy |-> lz, sent |-> TRUE, err |-> HcmErr("", <<>>), req |-> req, call |-> call]

\* the arguments of one hcm_api_call
RemoteCallSpec(path, method, body, enable_framework_version, set_timeout) ==
    [path |-> path, method |-> method, body |-> body,
     enable_framework_version |-> enable_framework_version, set_timeout |-> set_timeout]

NoCall == RemoteCallSpec(<<>>, "", None, FALSE, None)

\* a variant that passes every method through
SupportedMethodsAny == Methods

\* match method { GET => client.get(url), POST => client.post(url), _ => Err }
SupportedMethods == {"GET", "POST"}

\* a variant that never sets a timeout on the request
request_timeout_unset(set_timeout) == None

\* if let Some(t) = set_timeout { request = request.timeout(t) }: the timeout
\* the RequestBuilder of this call carries, the client being left as built
request_timeout(set_timeout) == set_timeout

hcm_api_call(lz0, e, built, path, method, body, enable_framework_version, set_timeout) ==
    LET lz1 == Touch(lz0, e, "HCM_BASE_URL")
        base == lz1["HCM_BASE_URL"]
        lz2 == Touch(lz1, e, "HCM_API_VERSION")
        url == ApiUrl(base.val, lz2["HCM_API_VERSION"].val, path)
        lz3 == TouchClient(lz2, built)
        client == lz3["HTTP_CLIENT"]
        lz4 == Touch(lz3, e, "HCM_USERNAME")
        username == lz4["HCM_USERNAME"].val
        lz5 == Touch(lz4, e, "HCM_PASSWORD")
        password == lz5["HCM_PASSWORD"]
        lz6 == IF enable_framework_version
               THEN Touch(lz5, e, "REST_FRAMEWORK_VERSION") ELSE lz5
        c == RemoteCallSpec(path, method, body, enable_framework_version, set_timeout)
    IN  IF base.st = "err" THEN Return(lz1, c, HcmErr("MissingConfig", base.val))
        ELSE IF client.st = "err"
        THEN Return(lz3, c, HcmErr("Internal",
                                   <<"HTTP client initialization failed: ">> \o client.val))
        ELSE IF password.st = "err"
        THEN Return(lz5, c, HcmErr("MissingConfig", password.val))
        ELSE IF method \notin SupportedMethods
        THEN Return(lz5, c, HcmErr("InvalidParams",
                                   <<"Only GET and POST methods are supported">>))
        ELSE Send(lz6, c,
                  [method |-> method,
                   url |-> url,
                   body |-> IF method = "POST"
                            THEN Some(IF IsSome(body) THEN Unwrap(body) ELSE <<>>)
                            ELSE None,
                   headers |-> AuthHeaders(username, password.val)
                               \cup FrameworkHeaders(enable_framework_version,
                                                     lz6["REST_FRAMEWORK_VERSION"].val)
                               \cup ContentTypeHeaders(method),
                   timeout |-> request_timeout(set_timeout)])

\* the timeout in force for a request: its own, else the client's
EffectiveTimeout(req) == IF IsSome(req.timeout) THEN Unwrap(req.timeout) ELSE ClientTimeoutSecs

\* ------------------------------------------------------------ traces and logs
\* a variant that prints every header value
HeaderDebugPlain(h) == [name |-> h.name, value |-> h.value]

\* the Debug form of a header (?req.headers()): a value flagged sensitive
\* prints as the word Sensitive
HeaderDebug(h) == [name |-> h.name, value |-> IF h.sensitive THEN <<"Sensitive">> ELSE h.value]

\* CustomTracing::on_request_start: the fields of the span of a request
on_request_start(req) ==
    [method |-> req.method, url |-> req.url, request_body |-> req.body,
     request_headers |-> {HeaderDebug(h) : h \in req.headers}]

\* info!("HCM API request: {} {}", method, url)
RequestLog(req) == <<"HCM API request: ", req.method, " ">> \o req.url

\* ------------------------------------------------------------ response handling
\* what send() and the reads of the body give back: kind "transport" is a send()
\* that failed without a response (connection error, timeout elapsed), kind "http"
\* a response with a status and a body that may be unreadable or not JSON
TransportFailure == [kind |-> "transport", status |-> 0, readable |-> FALSE,
                     text |-> <<"error sending request">>, json |-> None]
HttpResponse(status, readable, text, json) ==
    [kind |-> "http", status |-> status, readable |-> readable, text |-> text, json |-> json]

\* StatusCode::is_success
is_success(status) == status >= 200 /\ status <= 299

\* Display of StatusCode
StatusText(status) ==
    CASE status = 200 -> "200 OK"
      [] status = 204 -> "204 No Content"
      [] status = 401 -> "401 Unauthorized"
      [] status = 404 -> "404 Not Found"
      [] status = 500 -> "500 Internal Server Error"

BodyReadError == <<"error decoding response body">>

\* response.text().await.unwrap_or_else(|e| format!("Unable to read error response body: {e}"))
ErrorText(resp) ==
    IF resp.readable THEN resp.text
    ELSE <<"Unable to read error response body: ">> \o BodyReadError

\* request_builder.send().await? on a ClientWithMiddleware: the error is a
\* reqwest_middleware::Error, which `?` converts with From into HcmError::HttpMiddleware
TransportErrorVariant == "HttpMiddleware"

StatusErrorLenient(resp) ==
    IF resp.readable
    THEN ApiErr("Internal", <<"HTTP ", StatusText(resp.status), ": ">> \o resp.text)
    ELSE ApiErr("Http", BodyReadError)

StatusError(resp) ==
    ApiErr("Internal", <<"HTTP ", StatusText(resp.status), ": ">> \o ErrorText(resp))

\* hcm_api_call from the completion of send() to its return
hcm_api_call_finish(resp) ==
    IF resp.kind = "transport" THEN ApiErr(TransportErrorVariant, resp.text)
    ELSE IF ~is_success(resp.status) THEN StatusError(resp)
    ELSE IF ~resp.readable THEN ApiErr("Internal", <<"JSON parsing failed: ">> \o BodyReadError)
    ELSE IF ~IsSome(resp.json)
    THEN ApiErr("Internal", <<"JSON parsing failed: ", "expected value">>)
    ELSE ApiOk(Unwrap(resp.json))

ApiReturnEarly(err) == ApiErr(err.variant, err.msg)

\* the info!, error! and trace! lines of hcm_api_call after send() completed
ResponseLogs(req, resp) ==
    IF resp.kind # "http" THEN <<>>
    ELSE <<(<<"HCM API response: ", req.method, " ">> \o req.url
              \o <<" - Status: ", StatusText(resp.status)>>)>>
         \o (IF ~is_success(resp.status)
             THEN <<(<<"HCM API request failed with status ", StatusText(resp.status), ": ">>
                       \o ErrorText(resp))>>
             ELSE IF ~hcm_api_call_finish(resp).ok
             THEN <<(<<"HCM API failed to parse successful response as JSON: ">>
                       \o hcm_api_call_finish(resp).msg)>>
             ELSE <<(<<"HCM API response (JSON): ">> \o <<Unwrap(resp.json)>>)>>)

\* everything a dispatched call writes to the span and to the log
Emitted(req, resp) ==
    [span |-> on_request_start(req), lines |-> <<RequestLog(req)>> \o ResponseLogs(req, resp)]

\* ------------------------------------------------------------------ characters
\* char::to_uppercase, on the characters the inputs are written with; the
\* token "sharp_s" stands for U+00DF, whose upper case is the two letters SS
UpperChar(c) ==
    CASE c = "m" -> <<"M">>
      [] c = "f" -> <<"F">>
      [] c = "sharp_s" -> <<"S", "S">>
      [] OTHER -> <<c>>

RECURSIVE to_uppercase(_)
to_uppercase(s) == IF s = <<>> THEN <<>> ELSE UpperChar(Head(s)) \o to_uppercase(Tail(s))

DigitChars == {"0", "1", "2", "3", "4", "5", "6", "7", "8", "9"}

DigitVal(c) ==
    CASE c = "0" -> 0 [] c = "1" -> 1 [] c = "2" -> 2 [] c = "3" -> 3 [] c = "4" -> 4
      [] c = "5" -> 5 [] c = "6" -> 6 [] c = "7" -> 7 [] c = "8" -> 8 [] c = "9" -> 9

DigitChar(n) ==
    CASE n = 0 -> "0" [] n = 1 -> "1" [] n = 2 -> "2" [] n = 3 -> "3" [] n = 4 -> "4"
      [] n = 5 -> "5" [] n = 6 -> "6" [] n = 7 -> "7" [] n = 8 -> "8" [] n = 9 -> "9"

\* ----------------------------------------------------------------------- dates
\* chrono scan::number(s, 1, max): the longest run of 1..max leading digits
RECURSIVE DigitRun(_, _)
DigitRun(s, max) ==
    IF max > 0 /\ s # <<>> /\ Head(s) \in DigitChars THEN 1 + DigitRun(Tail(s), max - 1) ELSE 0

RECURSIVE DigitsValue(_)
DigitsValue(s) == IF s = <<>> THEN 0 ELSE 10 * DigitsValue(SubSeq(s, 1, Len(s) - 1)) + DigitVal(s[Len(s)])

ScanFail == [ok |-> FALSE, n |-> 0, rest |-> <<>>]

\* the digits of a numeric item after its sign: at least one, at most max
ScanDigits(t, max, sign) ==
    IF DigitRun(t, max) = 0 THEN ScanFail
    ELSE [ok |-> TRUE,
          n |-> IF sign = "-" THEN 0 - DigitsValue(SubSeq(t, 1, DigitRun(t, max)))
                ELSE DigitsValue(SubSeq(t, 1, DigitRun(t, max))),
          rest |-> SubSeq(t, DigitRun(t, max) + 1, Len(t))]

\* a signed item (the year) takes any number of digits after an explicit sign,
\* an item without sign at most width
ScanSigned(s, width, signed) ==
    IF signed /\ s # <<>> /\ Head(s) \in {"-", "+"}
    THEN ScanDigits(Tail(s), Len(s), Head(s))
    ELSE ScanDigits(s, width, "")

\* a numeric item: leading white space is skipped
ScanNumeric(s, width, signed) == ScanSigned(TrimStart(s, {" "}), width, signed)

\* after a successful item sc: the literal c, then a numeric item
ScanNext(sc, c, width, signed) ==
    IF sc.ok /\ sc.rest # <<>> /\ Head(sc.rest) = c
    THEN ScanNumeric(Tail(sc.rest), width, signed)
    ELSE ScanFail

IsLeap(y) == (y % 4 = 0 /\ y % 100 # 0) \/ y % 400 = 0

DaysIn(y, m) ==
    IF m = 2 THEN (IF IsLeap(y) THEN 29 ELSE 28)
    ELSE IF m \in {4, 6, 9, 11} THEN 30 ELSE 31

\* NaiveDate::from_ymd_opt
ValidDate(y, m, d) == m >= 1 /\ m <= 12 /\ d >= 1 /\ d <= DaysIn(y, m)

Date(y, m, d) == [y |-> y, m |-> m, d |-> d]

\* the date of three scanned items, if the input ended after the last
DateOf(last, y, m, d) ==
    IF last.ok /\ last.rest = <<>> /\ ValidDate(y.n, m.n, d.n)
    THEN Some(Date(y.n, m.n, d.n)) ELSE None

ParseDMY3(d, m, y) == DateOf(y, y, m, d)
ParseDMY2(d, m) == ParseDMY3(d, m, ScanNext(m, "-", 4, TRUE))
ParseDMY1(d) == ParseDMY2(d, ScanNext(d, "-", 2, FALSE))

\* NaiveDate::parse_from_str(s, "%d-%m-%Y").ok()
ParseDMY(s) == ParseDMY1(ScanNumeric(s, 2, FALSE))

ParseYMD3(y, m, d) == DateOf(d, y, m, d)
ParseYMD2(y, m) == ParseYMD3(y, m, ScanNext(m, "-", 2, FALSE))
ParseYMD1(y) == ParseYMD2(y, ScanNext(y, "-", 2, FALSE))

\* NaiveDate::parse_from_str(s, "%Y-%m-%d").ok()
ParseYMD(s) == ParseYMD1(ScanNumeric(s, 4, TRUE))

RECURSIVE ToDigits(_)
ToDigits(n) == IF n < 10 THEN <<DigitChar(n)>> ELSE ToDigits(n \div 10) \o <<DigitChar(n % 10)>>

RECURSIVE ZeroPad(_, _)
ZeroPad(s, width) == IF Len(s) >= width THEN s ELSE ZeroPad(<<"0">> \o s, width)

\* %Y: four digits for 0..9999, else sign and at least four digits
FormatYear(y) ==
    IF y >= 0 /\ y <= 9999 THEN ZeroPad(ToDigits(y), 4)
    ELSE IF y < 0 THEN <<"-">> \o ZeroPad(ToDigits(0 - y), 4)
    ELSE <<"+">> \o ZeroPad(ToDigits(y), 4)

\* date.format("%Y-%m-%d").to_string()
FormatYMD(dt) ==
    FormatYear(dt.y) \o <<"-">> \o ZeroPad(ToDigits(dt.m), 2) \o <<"-">> \o ZeroPad(ToDigits(dt.d), 2)

\* a variant that does not pad the day and the month
FormatDMYUnpadded(dt) ==
    ToDigits(dt.d) \o <<"-">> \o ToDigits(dt.m) \o <<"-">> \o FormatYear(dt.y)

\* date.format("%d-%m-%Y").to_string()
FormatDMY(dt) ==
    ZeroPad(ToDigits(dt.d), 2) \o <<"-">> \o ZeroPad(ToDigits(dt.m), 2) \o <<"-">> \o FormatYear(dt.y)

\* ----------------------------------------------------------------------- tools
PersonIdTool == "get_oracle_hcm_person_id_from_westpac_id"
AbsenceTypesTool == "get_absence_types_for_employee_hcm_person_id"
AbsenceBalancesTool == "get_all_absence_balances_for_employee_hcm_person_id"
ProjectedBalanceTool == "get_projected_balance"

Tools == {PersonIdTool, AbsenceTypesTool, AbsenceBalancesTool, ProjectedBalanceTool}

\* struct Employee and struct AbsenceBalanceRequest, written over one field set
\* (hcm_person_id is a String in AbsenceBalanceRequest: always Some there)
Employee(wbc_employee_id, hcm_person_id) ==
    [wbc_employee_id |-> wbc_employee_id, hcm_person_id |-> hcm_person_id,
     balance_as_of_date |-> None, absence_type_id |-> None, legal_entity_id |-> None]

AbsenceBalanceRequest(hcm_person_id, balance_as_of_date, absence_type_id, legal_entity_id) ==
    [wbc_employee_id |-> <<>>, hcm_person_id |-> Some(hcm_person_id),
     balance_as_of_date |-> balance_as_of_date, absence_type_id |-> absence_type_id,
     legal_entity_id |-> legal_entity_id]

\* a tool up to its first await: it returned (result) or it is waiting for the
\* response to req; api is what hcm_api_call returned if it returned early
Returned(lz, result) ==
    [lazy |-> lz, sent |-> FALSE, req |-> NoRequest, result |-> result, api |-> NotCalled,
     call |-> NoCall]

\* hcm_api_call(...).await? inside a tool
AwaitApi(call) ==
    [lazy |-> call.lazy, sent |-> call.sent, req |-> call.req,
     result |-> IF call.sent THEN ToolOk(JNull)
                ELSE ErrorDataFrom(call.err.variant, call.err.msg),
     api |-> IF call.sent THEN NotCalled ELSE ApiReturnEarly(call.err),
     call |-> call.call]

\* a variant that puts the identifier in the query as it was given
PersonIdPathVerbatim(wbc_employee_id) ==
    <<"/publicWorkers", "?q=assignments.WorkerNumber='">> \o wbc_employee_id
        \o <<"'&onlyData=true&limit=1">>

PersonIdPath(wbc_employee_id) ==
    <<"/publicWorkers", "?q=assignments.WorkerNumber='">> \o to_uppercase(wbc_employee_id)
        \o <<"'&onlyData=true&limit=1">>

get_oracle_hcm_person_id_from_westpac_id(lz, e, built, args) ==
    IF args.wbc_employee_id = <<>>
    THEN Returned(lz, ToolErr("INVALID_PARAMS", <<"Westpac Employee ID cannot be empty.">>))
    ELSE AwaitApi(hcm_api_call(lz, e, built, PersonIdPath(args.wbc_employee_id),
                               "GET", None, TRUE, None))

MissingConfigReturn(lz, name) == Returned(lz, ErrorDataFrom("MissingConfig", lz[name].val))

AbsenceTypesPath(person_id) ==
    <<"/absenceTypesLOV", "?onlyData=true&finder=findByWord;PersonId=">> \o person_id

get_absence_types_for_employee_hcm_person_id(lz, e, built, args) ==
    LET person_id == IF IsSome(args.hcm_person_id) /\ Unwrap(args.hcm_person_id) # <<>>
                     THEN args.hcm_person_id ELSE None
        lz1 == Touch(lz, e, "HCM_BASE_URL")
        lz2 == Touch(lz1, e, "HCM_API_VERSION")
        url == lz1["HCM_BASE_URL"].val \o <<ResourceRoot>> \o lz2["HCM_API_VERSION"].val
                   \o AbsenceTypesPath(Unwrap(person_id))
    IN  IF ~IsSome(person_id)
        THEN Returned(lz, ErrorDataFrom("InvalidParams",
                                        <<"HCM PersonId is required and cannot be empty.">>))
        ELSE IF lz1["HCM_BASE_URL"].st = "err" THEN MissingConfigReturn(lz1, "HCM_BASE_URL")
        ELSE AwaitApi(hcm_api_call(lz2, e, built, url, "GET", None, TRUE, None))

PlanBalancesPath(hcm_person_id) ==
    <<"/planBalances", "?onlyData=true&q=personId=">> \o hcm_person_id
        \o <<";planDisplayStatusFlag=true">>

\* a variant that also filters on the absence type when one is given
get_all_absence_balances_filtered(lz, e, built, args) ==
    IF Unwrap(args.hcm_person_id) = <<>>
    THEN Returned(lz, ToolErr("INVALID_PARAMS", <<"HCM PersonId cannot be empty.">>))
    ELSE AwaitApi(hcm_api_call(lz, e, built,
                               PlanBalancesPath(Unwrap(args.hcm_person_id))
                                   \o (IF IsSome(args.absence_type_id)
                                       THEN <<";absenceTypeId=">> \o Unwrap(args.absence_type_id)
                                       ELSE <<>>),
                               "GET", None, FALSE, None))

\* a variant without the check of hcm_person_id
get_all_absence_balances_unchecked(lz, e, built, args) ==
    AwaitApi(hcm_api_call(lz, e, built, PlanBalancesPath(Unwrap(args.hcm_person_id)),
                          "GET", None, FALSE, None))

get_all_absence_balances_for_employee_hcm_person_id(lz, e, built, args) ==
    IF Unwrap(args.hcm_person_id) = <<>>
    THEN Returned(lz, ToolErr("INVALID_PARAMS", <<"HCM PersonId cannot be empty.">>))
    ELSE AwaitApi(hcm_api_call(lz, e, built, PlanBalancesPath(Unwrap(args.hcm_person_id)),
                               "GET", None, FALSE, None))

ProjectedBalancePath == <<"/absences/action/loadProjectedBalance">>

OrElse(parsed, today) == IF IsSome(parsed) THEN Unwrap(parsed) ELSE today

\* a variant that passes a given date on as it was written
ProjectionDateAsGiven(balance_as_of_date, today) ==
    IF IsSome(balance_as_of_date) THEN Unwrap(balance_as_of_date) ELSE FormatYMD(today)

\* balance_as_of_date parsed as DD-MM-YYYY, else Local::now().date_naive()
ProjectionDate(balance_as_of_date, today) ==
    FormatYMD(OrElse(IF IsSome(balance_as_of_date) THEN ParseDMY(Unwrap(balance_as_of_date))
                     ELSE None,
                     today))

ProjectionEntry(args, formatted_balance_as_of_date) ==
    JObj([entry |-> JObj([personId |-> JStr(Unwrap(args.hcm_person_id)),
                          legalEntityId |-> JOpt(args.legal_entity_id),
                          absenceTypeId |-> JOpt(args.absence_type_id),
                          openEndedFlag |-> JStr(<<"N">>),
                          startDate |-> JStr(formatted_balance_as_of_date),
                          endDate |-> JStr(formatted_balance_as_of_date),
                          uom |-> JStr(<<"H">>),
                          duration |-> JNum("7.6"),
                          startDateDuration |-> JNum("7.6"),
                          endDateDuration |-> JNum("7.6")])])

ProjectionBody(args, today) ==
    ProjectionEntry(args, ProjectionDate(args.balance_as_of_date, today))

\* serde_json::to_string: the text of a document, written as one token
to_string(j) == <<j>>

\* a variant that leaves the projection under the client's timeout
ProjectionTimeoutAsClient == ClientTimeoutSecs

ProjectionTimeoutSecs == 60

get_projected_balance(lz, e, built, args, today) ==
    LET lz1 == Touch(lz, e, "HCM_BASE_URL")
        lz2 == Touch(lz1, e, "HCM_API_VERSION")
        url == lz1["HCM_BASE_URL"].val \o <<ResourceRoot>> \o lz2["HCM_API_VERSION"].val
                   \o ProjectedBalancePath
        body == to_string(ProjectionBody(args, today))
    IN  IF lz1["HCM_BASE_URL"].st = "err" THEN MissingConfigReturn(lz1, "HCM_BASE_URL")
        ELSE AwaitApi(hcm_api_call(lz2, e, built, url, "POST", Some(body), TRUE,
                                   Some(ProjectionTimeoutSecs)))

ToolStart(tool, lz, e, built, args, today) ==
    CASE tool = PersonIdTool -> get_oracle_hcm_person_id_from_westpac_id(lz, e, built, args)
      [] tool = AbsenceTypesTool ->
            get_absence_types_for_employee_hcm_person_id(lz, e, built, args)
      [] tool = AbsenceBalancesTool ->
            get_all_absence_balances_for_employee_hcm_person_id(lz, e, built, args)
      [] tool = ProjectedBalanceTool -> get_projected_balance(lz, e, built, args, today)

\* ----------------------------------------------------------- response normalisers
\* a variant that takes the first item that has a string PersonId
FirstPersonIdOfAny(json) ==
    LET items == as_array(Idx(json, "items"))
        found == IF IsSome(items)
                 THEN SelectSeq(Unwrap(items), LAMBDA item : IsSome(as_str(Idx(item, "PersonId"))))
                 ELSE <<>>
    IN  IF found # <<>> THEN as_str(Idx(Head(found), "PersonId")) ELSE None

\* items.first().and_then(|item| item["PersonId"].as_str())
FirstPersonId(json) ==
    LET items == as_array(Idx(json, "items"))
    IN  IF IsSome(items) /\ Unwrap(items) # <<>>
        THEN as_str(Idx(Head(Unwrap(items)), "PersonId"))
        ELSE None

\* a variant whose message names the upper-cased identifier
PersonIdResultUpper(args, json) ==
    LET person_id == FirstPersonId(json)
    IN  IF IsSome(person_id)
        THEN ToolOk(JObj([PersonId |-> JStr(Unwrap(person_id))]))
        ELSE ToolErr("INVALID_PARAMS",
                     <<"PersonID not found for Westpac Employee ID: ">>
                         \o to_uppercase(args.wbc_employee_id))

PersonIdResult(args, json) ==
    LET person_id == FirstPersonId(json)
    IN  IF IsSome(person_id)
        THEN ToolOk(JObj([PersonId |-> JStr(Unwrap(person_id))]))
        ELSE ToolErr("INVALID_PARAMS",
                     <<"PersonID not found for Westpac Employee ID: ">> \o args.wbc_employee_id)

\* a variant that does not ask for the name
AbsenceTypeCompleteNoName(item) ==
    /\ IsSome(as_str(Idx(item, "AbsenceTypeId")))
    /\ IsSome(as_str(Idx(item, "EmployerId")))

AbsenceTypeComplete(item) ==
    /\ IsSome(as_str(Idx(item, "AbsenceTypeId")))
    /\ IsSome(as_str(Idx(item, "EmployerId")))
    /\ IsSome(as_str(Idx(item, "AbsenceTypeName")))

AbsenceTypeRecord(item) ==
    JObj([AbsenceTypeId |-> Idx(item, "AbsenceTypeId"),
          EmployerId |-> Idx(item, "EmployerId"),
          AbsenceTypeName |-> Idx(item, "AbsenceTypeName")])

AbsenceTypesResult(args, json) ==
    LET items == as_array(Idx(json, "items"))
        absence_types == IF IsSome(items)
                         THEN LET kept == SelectSeq(Unwrap(items), AbsenceTypeComplete)
                              IN  [i \in 1..Len(kept) |-> AbsenceTypeRecord(kept[i])]
                         ELSE <<>>
    IN  ToolOk(JObj([absence_types |-> JArr(absence_types)]))

BalanceCalcDate(item) ==
    LET s == as_str(Idx(item, "balanceCalculationDate"))
    IN  IF IsSome(s) THEN ParseYMD(Unwrap(s)) ELSE None

\* a variant that does not ask for the formatted balance
BalanceCompleteNoBalance(item) ==
    /\ IsSome(as_str(Idx(item, "planName")))
    /\ IsSome(as_bool(Idx(item, "multiYearCarryOverFlag")))
    /\ IsSome(as_str(Idx(item, "planStatusMeaning")))
    /\ IsSome(BalanceCalcDate(item))

BalanceComplete(item) ==
    /\ IsSome(as_str(Idx(item, "planName")))
    /\ IsSome(as_bool(Idx(item, "multiYearCarryOverFlag")))
    /\ IsSome(as_str(Idx(item, "planStatusMeaning")))
    /\ IsSome(as_str(Idx(item, "formattedBalance")))
    /\ IsSome(BalanceCalcDate(item))

BalanceRecord(item) ==
    JObj([planName |-> Idx(item, "planName"),
          carryOver |-> Idx(item, "multiYearCarryOverFlag"),
          planStatus |-> Idx(item, "planStatusMeaning"),
          formattedBalance |-> Idx(item, "formattedBalance"),
          balanceCalculationDate |-> JStr(FormatDMY(Unwrap(BalanceCalcDate(item))))])

AbsenceBalancesResult(args, json) ==
    LET items == as_array(Idx(json, "items"))
        absence_balances == IF IsSome(items)
                            THEN LET kept == SelectSeq(Unwrap(items), BalanceComplete)
                                 IN  [i \in 1..Len(kept) |-> BalanceRecord(kept[i])]
                            ELSE <<>>
    IN  ToolOk(JObj([absence_balances |-> JArr(absence_balances)]))

\* a variant that answers with whatever is at result.formattedProjectedBalance
ProjectedBalanceResultLenient(args, json) ==
    ToolOk(JObj([absence_type_id |-> JOpt(args.absence_type_id),
                 projected_balance |-> JOpt(as_str(Idx(Idx(json, "result"),
                                                     "formattedProjectedBalance")))]))

ProjectedBalanceResult(args, json) ==
    LET projected_balance == as_str(Idx(Idx(json, "result"), "formattedProjectedBalance"))
    IN  IF IsSome(projected_balance)
        THEN ToolOk(JObj([absence_type_id |-> JOpt(args.absence_type_id),
                          projected_balance |-> JStr(Unwrap(projected_balance))]))
        ELSE ToolErr("INTERNAL_ERROR", <<"Failed to parse projected balance from response.">>)

\* a tool from the return of hcm_api_call(...).await to its own return
ToolFinish(tool, args, ret) ==
    IF ~ret.ok THEN ErrorDataFrom(ret.variant, ret.msg)
    ELSE CASE tool = PersonIdTool -> PersonIdResult(args, ret.json)
           [] tool = AbsenceTypesTool -> AbsenceTypesResult(args, ret.json)
           [] tool = AbsenceBalancesTool -> AbsenceBalancesResult(args, ret.json)
           [] tool = ProjectedBalanceTool -> ProjectedBalanceResult(args, ret.json)

\* ----------------------------------------------------------------- input domains
\* the process environment after dotenv(): each variable unset or set
EnvDomain(name) ==
    CASE name = "HCM_BASE_URL" -> {None, Some(<<DQ, "h", DQ>>)}
      [] name = "HCM_PASSWORD" -> {None, Some(<<SQ, "p", SQ>>)}
      [] name = "HCM_API_VERSION" -> {None, Some(<<"v">>)}
      [] name = "REST_FRAMEWORK_VERSION" -> {None}
      [] name = "HCM_USERNAME" -> {None, Some(<<DQ, "u", DQ>>)}

Environments == {e \in [EnvVars -> {None, Some(<<DQ, "h", DQ>>), Some(<<SQ, "p", SQ>>),
                                     Some(<<"v">>), Some(<<DQ, "u", DQ>>)}] :
                    /\ \A name \in EnvVars : e[name] \in EnvDomain(name)
                    /\ IsSome(e["HCM_API_VERSION"]) = IsSome(e["HCM_USERNAME"])}

EmployeeInputs ==
    {Employee(w, p) : w \in {<<>>, <<"m", "1">>}, p \in {None, Some(<<>>), Some(<<"7">>)}}

DateInputs == {None, Some(<<"3", "1", "-", "1", "2", "-", "2", "0", "2", "5">>), Some(<<"x">>)}

BalanceInputs ==
    {AbsenceBalanceRequest(p, d, o[1], o[2]) :
        p \in {<<>>, <<"7">>}, d \in DateInputs,
        o \in {<<None, None>>, <<Some(<<"A">>), Some(<<"L">>)>>}}

ToolInputs(tool) ==
    IF tool \in {PersonIdTool, AbsenceTypesTool} THEN EmployeeInputs ELSE BalanceInputs

\* Local::now().date_naive()
Days == {Date(2026, 11, 4)}

ItemOk(tool) ==
    CASE tool = PersonIdTool -> JObj([PersonId |-> JStr(<<"7">>)])
      [] tool = AbsenceTypesTool ->
            JObj([AbsenceTypeId |-> JStr(<<"A">>), EmployerId |-> JStr(<<"L">>),
                  AbsenceTypeName |-> JStr(<<"Annual">>)])
      [] tool = AbsenceBalancesTool ->
            JObj([planName |-> JStr(<<"Annual">>), multiYearCarryOverFlag |-> JBool(TRUE),
                  planStatusMeaning |-> JStr(<<"Active">>), formattedBalance |-> JStr(<<"8 h">>),
                  balanceCalculationDate |->
                      JStr(<<"2", "0", "2", "5", "-", "1", "2", "-", "3", "1">>)])
      [] tool = ProjectedBalanceTool -> JNull

ItemBad(tool) ==
    CASE tool = PersonIdTool -> JObj([PersonId |-> JNum("7")])
      [] tool = AbsenceTypesTool ->
            JObj([AbsenceTypeId |-> JStr(<<"A">>), EmployerId |-> JStr(<<"L">>)])
      [] tool = AbsenceBalancesTool ->
            JObj([planName |-> JStr(<<"Sick">>), multiYearCarryOverFlag |-> JBool(FALSE),
                  planStatusMeaning |-> JStr(<<"Active">>),
                  balanceCalculationDate |->
                      JStr(<<"2", "0", "2", "5", "-", "1", "2", "-", "3", "1">>)])
      [] tool = ProjectedBalanceTool -> JNull

\* JSON documents the remote API may answer a tool with
JsonBodies(tool) ==
    IF tool = ProjectedBalanceTool
    THEN {JObj([result |-> JObj([formattedProjectedBalance |-> JStr(<<"9 h">>)])]),
          JObj([result |-> JObj([projectedBalance |-> JNum("9")])])}
    ELSE {JObj([count |-> JNum("0")]),
          JObj([items |-> JArr(<<>>)]),
          JObj([items |-> JArr(<<ItemOk(tool)>>)]),
          JObj([items |-> JArr(<<ItemBad(tool), ItemOk(tool)>>)])}

ErrorStatuses == {404, 500}

Failures ==
    {TransportFailure}
        \cup {HttpResponse(st, TRUE, <<"denied">>, None) : st \in ErrorStatuses}
        \cup {HttpResponse(st, FALSE, <<>>, None) : st \in ErrorStatuses}
        \cup {HttpResponse(200, FALSE, <<>>, None), HttpResponse(200, TRUE, <<"<html>">>, None)}

Responses(tool) ==
    Failures \cup {HttpResponse(200, TRUE, <<"json">>, Some(j)) : j \in JsonBodies(tool)}

\* ------------------------------------------------------------------------ state
\* env       the process environment
\* lazy      the LazyLock statics of http/client.rs
\* mainPc    where main is: "start", "listening", "draining", "exited"
\* instances bridge instances (OracleHCMMCPFactory) created for sessions
\* inv       the tool invocations, each idle, awaiting its response, or done
\* api       a direct call of hcm_api_call (specification SpecApi)
NoResponse == [kind |-> "none", status |-> 0, readable |-> FALSE, text |-> <<>>, json |-> None]

\* elapsed is the time since the request of the invocation was handed to send().
\* envMissing and envStale record what the environment was when the tool was
\* invoked: a required variable unset, or a variable whose value no longer
\* resolves to what its configuration cell holds
Idle == [pc |-> "idle", tool |-> "", args |-> Employee(<<>>, None), call |-> NoCall,
         req |-> NoRequest, nreq |-> 0, resp |-> NoResponse, api |-> NotCalled, result |-> ToolOk(JNull),
         envMissing |-> FALSE, envStale |-> FALSE, elapsed |-> 0]

EnvMissing(e) == ~IsSome(e["HCM_BASE_URL"]) \/ ~IsSome(e["HCM_PASSWORD"])

EnvStale(lz, e) == \E name \in EnvVars : lz[name].st # "uninit" /\ LazyInit(e, name) # lz[name]

Invocations == 1..MaxInv

\* the tasks that can hold an invocation, of which Invocations are the ones
\* used where invocations need not overlap
Slots == 1..MaxSlots

\* prev is the set_timeout of the call made before this one, if there was one
ApiUnused == [pc |-> "unused", path |-> <<>>, method |-> "", body |-> None,
              enable_framework_version |-> FALSE, set_timeout |-> None,
              req |-> NoRequest, nreq |-> 0, resp |-> NoResponse, ret |-> NotCalled,
              prev |-> None]

Init ==
    /\ env \in Environments
    /\ lazy = [name \in LazyNames |-> Uninit]
    /\ mainPc = "start"
    /\ instances = 0
    /\ inv = [i \in Slots |-> Idle]
    /\ api = ApiUnused

\* main: dotenv, tracing, StreamableHttpService::new (which only stores the
\* factory closure), Router, TcpListener::bind succeeded, serve
Listen ==
    /\ mainPc = "start"
    /\ mainPc' = "listening"
    /\ UNCHANGED <<env, lazy, instances, inv, api>>

\* main: TcpListener::bind(...).await? failed
BindFail ==
    /\ mainPc = "start"
    /\ mainPc' = "exited"
    /\ UNCHANGED <<env, lazy, instances, inv, api>>

\* a variant that validates the base URL only
OracleHCMMCPFactory_new_base_only(lz, e) ==
    LET lz1 == Touch(lz, e, "HCM_BASE_URL")
    IN  IF lz1["HCM_BASE_URL"].st = "err" THEN [lazy |-> lz1, ok |-> FALSE]
        ELSE [lazy |-> lz1, ok |-> TRUE]

\* OracleHCMMCPFactory::new
OracleHCMMCPFactory_new(lz, e) ==
    LET lz1 == Touch(lz, e, "HCM_BASE_URL")
        lz2 == Touch(lz1, e, "HCM_PASSWORD")
    IN  IF lz1["HCM_BASE_URL"].st = "err" THEN [lazy |-> lz1, ok |-> FALSE]
        ELSE IF lz2["HCM_PASSWORD"].st = "err" THEN [lazy |-> lz2, ok |-> FALSE]
        ELSE [lazy |-> lz2, ok |-> TRUE]

\* the factory closure given to StreamableHttpService, run for a new session
CreateSession ==
    /\ mainPc = "listening"
    /\ instances < MaxSessions
    /\ \E r \in {OracleHCMMCPFactory_new(lazy, env)} :
           /\ lazy' = r.lazy
           /\ instances' = IF r.ok THEN instances + 1 ELSE instances
    /\ UNCHANGED <<env, mainPc, inv, api>>

\* a tool is invoked on an instance and runs to its first await or to its return
ToolCall(i, tool, args, built, today) ==
    /\ mainPc = "listening"
    /\ instances > 0
    /\ inv[i].pc = "idle"
    /\ \E r \in {ToolStart(tool, lazy, env, built, args, today)} :
           /\ lazy' = r.lazy
           /\ inv' = [inv EXCEPT ![i] =
                        [pc |-> IF r.sent THEN "awaiting" ELSE "done",
                         tool |-> tool, args |-> args, call |-> r.call, req |-> r.req,
                         nreq |-> IF r.sent THEN 1 ELSE 0,
                         resp |-> NoResponse, api |-> r.api, result |-> r.result,
                         envMissing |-> EnvMissing(env), envStale |-> EnvStale(lazy, env),
                         elapsed |-> 0]]
    /\ UNCHANGED <<env, mainPc, instances, api>>

\* a variant that sends the request again after a transport failure
AfterResponseRetry(slot, resp) ==
    IF resp.kind = "transport" /\ slot.nreq < 2
    THEN [slot EXCEPT !.nreq = @ + 1]
    ELSE [slot EXCEPT !.pc = "done", !.resp = resp, !.api = hcm_api_call_finish(resp),
                      !.result = ToolFinish(slot.tool, slot.args, hcm_api_call_finish(resp))]

\* the invocation after send() completed with resp: hcm_api_call returns, and
\* the tool runs to its own return; nothing is sent again
AfterResponse(slot, resp) ==
    [slot EXCEPT !.pc = "done", !.resp = resp, !.api = hcm_api_call_finish(resp),
                 !.result = ToolFinish(slot.tool, slot.args, hcm_api_call_finish(resp))]

\* send() completes for an awaiting invocation
Receive(i, resp) ==
    /\ inv[i].pc = "awaiting"
    /\ inv' = [inv EXCEPT ![i] = AfterResponse(inv[i], resp)]
    /\ UNCHANGED <<env, lazy, mainPc, instances, api>>

\* ctrl_c: serve stops accepting and drains the connections
Shutdown ==
    /\ mainPc = "listening"
    /\ mainPc' = "draining"
    /\ UNCHANGED <<env, lazy, instances, inv, api>>

Exit ==
    /\ mainPc = "draining"
    /\ \A i \in Invocations : inv[i].pc # "awaiting"
    /\ mainPc' = "exited"
    /\ UNCHANGED <<env, lazy, instances, inv, api>>

Next ==
    \/ Listen
    \/ BindFail
    \/ CreateSession
    \/ \E i \in Invocations, tool \in Tools, built \in BOOLEAN, today \in Days :
          \E args \in ToolInputs(tool) : ToolCall(i, tool, args, built, today)
    \/ \E i \in {j \in Invocations : inv[j].pc = "awaiting"} :
          \E resp \in Responses(inv[i].tool) : Receive(i, resp)
    \/ Shutdown
    \/ Exit

Spec == Init /\ [][Next]_vars

\* ------------------------------------- the environment changes while serving
\* std::env::set_var / remove_var by anything in the process after start-up
EnvChangeDomain(name) ==
    CASE name = "HCM_BASE_URL" -> {None, Some(<<"g">>)}
      [] name = "HCM_PASSWORD" -> {None}
      [] name = "HCM_USERNAME" -> {Some(<<"w">>)}
      [] OTHER -> {}

EnvChange(name, value) ==
    /\ mainPc = "listening"
    /\ env[name] # value
    /\ env' = [env EXCEPT ![name] = value]
    /\ UNCHANGED <<lazy, mainPc, instances, inv, api>>

\* the future of a finished invocation is dropped; its task may serve the next
Retire(i) ==
    /\ inv[i].pc = "done"
    /\ inv' = [inv EXCEPT ![i] = Idle]
    /\ UNCHANGED <<env, lazy, mainPc, instances, api>>

EnvToolInputs(tool) ==
    CASE tool = PersonIdTool -> {Employee(<<"m", "1">>, None)}
      [] tool = AbsenceTypesTool -> {Employee(<<>>, Some(<<"7">>))}
      [] OTHER -> {AbsenceBalanceRequest(<<"7">>, None, None, None)}

EnvResponses(tool) ==
    {HttpResponse(200, TRUE, <<"json">>, Some(j)) :
        j \in IF tool = ProjectedBalanceTool
              THEN {JObj([result |-> JObj([projectedBalance |-> JNum("9")])])}
              ELSE {JObj([items |-> JArr(<<ItemOk(tool)>>)])}}

NextEnv ==
    \/ Listen
    \/ BindFail
    \/ CreateSession
    \/ \E i \in Invocations, tool \in Tools, built \in BOOLEAN, today \in Days :
          \E args \in EnvToolInputs(tool) : ToolCall(i, tool, args, built, today)
    \/ \E i \in {j \in Invocations : inv[j].pc = "awaiting"} :
          \E resp \in EnvResponses(inv[i].tool) : Receive(i, resp)
    \/ \E i \in Invocations : Retire(i)
    \/ \E name \in EnvVars : \E value \in EnvChangeDomain(name) : EnvChange(name, value)
    \/ Shutdown
    \/ Exit

SpecEnv == Init /\ [][NextEnv]_vars

\* ------------------------------------------- person-id lookups of any identifier
MaxIdLen == 2

IdChars == {"m", "M", "1", "sharp_s"}

RECURSIVE SeqsUpTo(_, _)
SeqsUpTo(chars, n) ==
    IF n = 0 THEN {<<>>}
    ELSE SeqsUpTo(chars, n - 1) \cup {Append(s, c) : s \in SeqsUpTo(chars, n - 1), c \in chars}

LookupInputs == {Employee(w, None) : w \in SeqsUpTo(IdChars, MaxIdLen)}

NextLookup ==
    \/ Listen
    \/ CreateSession
    \/ \E i \in Invocations, built \in BOOLEAN, today \in Days, args \in LookupInputs :
          ToolCall(i, PersonIdTool, args, built, today)
    \/ \E i \in {j \in Invocations : inv[j].pc = "awaiting"} :
          \E resp \in EnvResponses(PersonIdTool) : Receive(i, resp)

SpecLookup == Init /\ [][NextLookup]_vars

\* ------------------------------------------- list responses of any composition
MaxItems == 2

\* items a plan-balances response may hold: two well-formed ones, one without
\* formattedBalance, one dated 30 February, one without the carry-over flag
BalanceItems ==
    {ItemOk(AbsenceBalancesTool),
     JObj([planName |-> JStr(<<"Sick">>), multiYearCarryOverFlag |-> JBool(FALSE),
           planStatusMeaning |-> JStr(<<"Closed">>), formattedBalance |-> JStr(<<"0 h">>),
           balanceCalculationDate |->
               JStr(<<"2", "0", "2", "4", "-", "0", "2", "-", "2", "9">>)]),
     ItemBad(AbsenceBalancesTool),
     JObj([planName |-> JStr(<<"Annual">>), multiYearCarryOverFlag |-> JBool(TRUE),
           planStatusMeaning |-> JStr(<<"Active">>), formattedBalance |-> JStr(<<"8 h">>),
           balanceCalculationDate |->
               JStr(<<"2", "0", "2", "5", "-", "0", "2", "-", "3", "0">>)]),
     JObj([planName |-> JStr(<<"Annual">>),
           planStatusMeaning |-> JStr(<<"Active">>), formattedBalance |-> JStr(<<"8 h">>),
           balanceCalculationDate |->
               JStr(<<"2", "0", "2", "5", "-", "1", "2", "-", "3", "1">>)])}

\* items an absence-types response may hold: two well-formed ones, one without
\* AbsenceTypeName, one whose EmployerId is null
AbsenceTypeItems ==
    {ItemOk(AbsenceTypesTool),
     JObj([AbsenceTypeId |-> JStr(<<"S">>), EmployerId |-> JStr(<<"L">>),
           AbsenceTypeName |-> JStr(<<"Sick">>)]),
     ItemBad(AbsenceTypesTool),
     JObj([AbsenceTypeId |-> JStr(<<"A">>), EmployerId |-> JNull,
           AbsenceTypeName |-> JStr(<<"Annual">>)])}

ListTools == {AbsenceTypesTool, AbsenceBalancesTool}

ItemResponses(tool) ==
    {HttpResponse(200, TRUE, <<"json">>, Some(JObj([items |-> JArr(l)]))) :
        l \in SeqsUpTo(IF tool = AbsenceTypesTool THEN AbsenceTypeItems ELSE BalanceItems,
                       MaxItems)}
        \cup {HttpResponse(200, TRUE, <<"json">>, Some(JObj([count |-> JNum("0")])))}

NextItems ==
    \/ Listen
    \/ CreateSession
    \/ \E i \in Invocations, tool \in ListTools, built \in BOOLEAN, today \in Days :
          \E args \in EnvToolInputs(tool) : ToolCall(i, tool, args, built, today)
    \/ \E i \in {j \in Invocations : inv[j].pc = "awaiting"} :
          \E resp \in ItemResponses(inv[i].tool) : Receive(i, resp)

SpecItems == Init /\ [][NextItems]_vars

\* --------------------------------------- plan balances calculated on any date
DateYears == {0, 2024, 2025, 9999}

CalendarDates ==
    {dt \in {Date(y, m, d) : y \in DateYears, m \in 1..12, d \in 1..31} :
        ValidDate(dt.y, dt.m, dt.d)}

\* a well-formed plan-balances item calculated on dt, the date written %Y-%m-%d
DatedItem(dt) ==
    JObj([planName |-> JStr(<<"Annual">>), multiYearCarryOverFlag |-> JBool(TRUE),
          planStatusMeaning |-> JStr(<<"Active">>), formattedBalance |-> JStr(<<"8 h">>),
          balanceCalculationDate |-> JStr(FormatYMD(dt))])

DateResponses ==
    {HttpResponse(200, TRUE, <<"json">>, Some(JObj([items |-> JArr(<<DatedItem(dt)>>)]))) :
        dt \in CalendarDates}

NextDates ==
    \/ Listen
    \/ CreateSession
    \/ \E built \in BOOLEAN, today \in Days :
          \E args \in EnvToolInputs(AbsenceBalancesTool) :
              ToolCall(1, AbsenceBalancesTool, args, built, today)
    \/ \E resp \in DateResponses : Receive(1, resp)

SpecDates == Init /\ [][NextDates]_vars

\* ------------------------------------------- projections as of any date
\* balance_as_of_date: absent, a calendar date written %d-%m-%Y, or a text that
\* is not one (no date at all, 30 February, year first)
\* the days at the ends of the months and all of February, of a leap year and
\* of a common year, and the first and the last day a four-digit year can name
ProjectionDates ==
    {dt \in CalendarDates : dt.y \in {2024, 2025} /\ (dt.m = 2 \/ dt.d \in {1, 28, 29, 30, 31})}
        \cup {Date(0, 1, 1), Date(9999, 12, 31)}

ProjectionDateInputs ==
    {None} \cup {Some(FormatDMY(dt)) : dt \in ProjectionDates}
        \cup {Some(<<"x">>),
              Some(<<"3", "0", "-", "0", "2", "-", "2", "0", "2", "5">>),
              Some(<<"2", "0", "2", "5", "-", "1", "2", "-", "3", "1">>)}

ProjectionInputs ==
    {AbsenceBalanceRequest(<<"7">>, d, o[1], o[2]) :
        d \in ProjectionDateInputs,
        o \in {<<None, None>>, <<Some(<<"A">>), Some(<<"L">>)>>}}

ProjectionDays == {Date(2026, 11, 4), Date(2024, 2, 29)}

ProjectionResponses ==
    {TransportFailure}
        \cup {HttpResponse(200, TRUE, <<"json">>, Some(j)) :
                  j \in {JObj([result |-> JObj([formattedProjectedBalance |-> JStr(<<"9 h">>)])]),
                         JObj([result |-> JObj([formattedProjectedBalance |-> JNull])]),
                         JObj([result |-> JObj([projectedBalance |-> JNum("9")])]),
                         JObj([count |-> JNum("0")])}}

NextProjection ==
    \/ Listen
    \/ CreateSession
    \/ \E built \in BOOLEAN, today \in ProjectionDays, args \in ProjectionInputs :
          ToolCall(1, ProjectedBalanceTool, args, built, today)
    \/ \E resp \in ProjectionResponses : Receive(1, resp)

SpecProjection == Init /\ [][NextProjection]_vars

\* ------------------------------------- configuration values quoted in any way
\* each variable unset, bare, or wrapped in double or in single quotes
QuotedValues == {None, Some(<<"x">>), Some(<<DQ, "x", DQ>>), Some(<<SQ, "x", SQ>>)}

InitConfig ==
    /\ env \in [EnvVars -> QuotedValues]
    /\ lazy = [name \in LazyNames |-> Uninit]
    /\ mainPc = "start"
    /\ instances = 0
    /\ inv = [i \in Slots |-> Idle]
    /\ api = ApiUnused

\* the first dereference of a configuration static
Dereference(name) ==
    /\ lazy[name].st = "uninit"
    /\ lazy' = Touch(lazy, env, name)
    /\ UNCHANGED <<env, mainPc, instances, inv, api>>

NextConfig == \E name \in EnvVars : Dereference(name)

SpecConfig == InitConfig /\ [][NextConfig]_vars

\* ------------------------------------------------ invocations that overlap
PairResponses(tool) == {TransportFailure} \cup EnvResponses(tool)

NextPair ==
    \/ Listen
    \/ CreateSession
    \/ \E i \in Slots, tool \in Tools, built \in BOOLEAN, today \in Days :
          \E args \in EnvToolInputs(tool) : ToolCall(i, tool, args, built, today)
    \/ \E i \in {j \in Slots : inv[j].pc = "awaiting"} :
          \E resp \in PairResponses(inv[i].tool) : Receive(i, resp)

SpecPair == Init /\ [][NextPair]_vars

\* ------------------------------------------ requests under their timeouts
\* the clock advances in steps of the client's timeout, which divide the override
ClockStep == ClientTimeoutSecs

\* the clock is not followed past the longest timeout
MaxElapsed == ProjectionTimeoutSecs

\* a variant in which no timeout bounds the request
TimedOutNever(slot) == FALSE

\* the timeout of the request (its own, else the client's) has elapsed since
\* send() was called
TimedOut(slot) == slot.elapsed >= EffectiveTimeout(slot.req)

\* time passes for an awaiting invocation
Tick(i) ==
    /\ inv[i].pc = "awaiting"
    /\ ~TimedOut(inv[i])
    /\ inv[i].elapsed < MaxElapsed
    /\ inv' = [inv EXCEPT ![i].elapsed = @ + ClockStep]
    /\ UNCHANGED <<env, lazy, mainPc, instances, api>>

\* the timeout fires: send() fails with a timeout error
Expire(i) ==
    /\ TimedOut(inv[i])
    /\ Receive(i, TransportFailure)

\* the remote side answers, or the connection fails, before the timeout
Respond(i, resp) ==
    /\ ~TimedOut(inv[i])
    /\ Receive(i, resp)

\* the answers: every failure, and one success for each tool
LiveResponses(tool) == Failures \cup EnvResponses(tool)

NextLive ==
    \/ Listen
    \/ CreateSession
    \/ \E i \in Invocations, tool \in Tools, built \in BOOLEAN, today \in Days :
          \E args \in EnvToolInputs(tool) : ToolCall(i, tool, args, built, today)
    \/ \E i \in Invocations : Tick(i)
    \/ \E i \in Invocations : Expire(i)
    \/ \E i \in {j \in Invocations : inv[j].pc = "awaiting"} :
          \E resp \in LiveResponses(inv[i].tool) : Respond(i, resp)

\* the runtime's timer keeps running and fires the timeouts that are due; the
\* remote side owes nothing
SpecLive ==
    /\ Init
    /\ [][NextLive]_vars
    /\ \A i \in Invocations : WF_vars(Tick(i)) /\ WF_vars(Expire(i))

\* ------------------------------------------------- hcm_api_call called directly
ApiPaths == {<<"/publicWorkers">>, <<"/planBalances", "?onlyData=true">>}

ApiBodies == {None, Some(to_string(JObj([entry |-> JNull])))}

ApiTimeouts == {None, Some(5), Some(ProjectionTimeoutSecs)}

InitApi ==
    /\ env \in Environments
    /\ lazy = [name \in LazyNames |-> Uninit]
    /\ mainPc = "start"
    /\ instances = 0
    /\ inv = [i \in Slots |-> Idle]
    /\ \E path \in ApiPaths, method \in Methods, body \in ApiBodies,
          flag \in BOOLEAN, timeout \in ApiTimeouts :
          api = [ApiUnused EXCEPT !.pc = "ready", !.path = path, !.method = method,
                                  !.body = body, !.enable_framework_version = flag,
                                  !.set_timeout = timeout]

ApiCall(built) ==
    /\ api.pc = "ready"
    /\ \E r \in {hcm_api_call(lazy, env, built, api.path, api.method, api.body,
                               api.enable_framework_version, api.set_timeout)} :
           /\ lazy' = r.lazy
           /\ api' = [api EXCEPT !.pc = IF r.sent THEN "awaiting" ELSE "done",
                                 !.req = r.req,
                                 !.nreq = IF r.sent THEN 1 ELSE 0,
                                 !.ret = IF r.sent THEN NotCalled ELSE ApiReturnEarly(r.err)]
    /\ UNCHANGED <<env, mainPc, instances, inv>>

ApiReceive(resp) ==
    /\ api.pc = "awaiting"
    /\ api' = [api EXCEPT !.pc = "done", !.resp = resp, !.ret = hcm_api_call_finish(resp)]
    /\ UNCHANGED <<env, lazy, mainPc, instances, inv>>

NextApi ==
    \/ \E built \in BOOLEAN : ApiCall(built)
    \/ \E resp \in Responses(PersonIdTool) : ApiReceive(resp)

SpecApi == InitApi /\ [][NextApi]_vars

\* ---------------------------------------------- hcm_api_call called repeatedly
\* the caller makes its next call once the previous one has returned
ApiAgain(path, method, body, flag, timeout) ==
    /\ api.pc = "done"
    /\ api' = [ApiUnused EXCEPT !.pc = "ready", !.path = path, !.method = method,
                                !.body = body, !.enable_framework_version = flag,
                                !.set_timeout = timeout, !.prev = Some(api.set_timeout)]
    /\ UNCHANGED <<env, lazy, mainPc, instances, inv>>

NextSeq ==
    \/ \E built \in BOOLEAN : ApiCall(built)
    \/ \E resp \in Responses(PersonIdTool) : ApiReceive(resp)
    \/ \E path \in ApiPaths, method \in Methods, body \in ApiBodies,
          flag \in BOOLEAN, timeout \in ApiTimeouts :
          ApiAgain(path, method, body, flag, timeout)

SpecSeq == InitApi /\ [][NextSeq]_vars

TypeOK ==
    /\ mainPc \in {"start", "listening", "draining", "exited"}
    /\ instances \in 0..MaxSessions
    /\ \A i \in Invocations : inv[i].pc \in {"idle", "awaiting", "done"}

\* ----------------------------------------------------------------------- claims
Started(i) == inv[i].pc # "idle"

Dispatched(i) == inv[i].nreq > 0

HeaderNames(req) == {h.name : h \in req.headers}

\* the identifier the tool requires is empty (or, for the absence types, absent)
EmptyIdInput(slot) ==
    \/ slot.tool = PersonIdTool /\ slot.args.wbc_employee_id = <<>>
    \/ slot.tool = AbsenceTypesTool
         /\ (~IsSome(slot.args.hcm_person_id) \/ slot.args.hcm_person_id = Some(<<>>))
    \/ slot.tool = AbsenceBalancesTool /\ slot.args.hcm_person_id = Some(<<>>)

\* C1: the person-id lookup, the absence-types tool and the plan-balances tool,
\* invoked with an empty (or absent) identifier, return INVALID_PARAMS, issue no
\* outbound request and never enter hcm_api_call
C1_ValidationBeforeNetwork ==
    \A i \in Invocations :
        Started(i) /\ EmptyIdInput(inv[i]) =>
            /\ inv[i].pc = "done"
            /\ ~inv[i].result.ok
            /\ inv[i].result.code = "INVALID_PARAMS"
            /\ inv[i].nreq = 0
            /\ inv[i].req = NoRequest
            /\ inv[i].call = NoCall
            /\ inv[i].api = NotCalled

C1_Witness ==
    \E i \in Invocations :
        /\ inv[i].pc = "done"
        /\ inv[i].tool = AbsenceBalancesTool
        /\ inv[i].args.hcm_person_id = Some(<<>>)
        /\ inv[i].result.code = "INVALID_PARAMS"

\* C2: get_projected_balance invoked with an empty hcm_person_id is rejected by
\* input validation and issues no outbound request (stated for the runs in
\* which the shared HTTP client could be built: where it could not, no tool
\* can issue a request, whatever it validates)
C2_ProjectionRejectsEmptyPerson ==
    \A i \in Invocations :
        Started(i) /\ inv[i].tool = ProjectedBalanceTool
                   /\ inv[i].args.hcm_person_id = Some(<<>>)
                   /\ lazy["HTTP_CLIENT"].st # "err" =>
            /\ inv[i].nreq = 0
            /\ inv[i].pc = "done"
            /\ inv[i].result.code = "INVALID_PARAMS"

\* the resource path of the tool of an invocation
ResourcePath(slot) ==
    CASE slot.tool = PersonIdTool -> PersonIdPath(slot.args.wbc_employee_id)
      [] slot.tool = AbsenceTypesTool -> AbsenceTypesPath(Unwrap(slot.args.hcm_person_id))
      [] slot.tool = AbsenceBalancesTool -> PlanBalancesPath(Unwrap(slot.args.hcm_person_id))
      [] slot.tool = ProjectedBalanceTool -> ProjectedBalancePath

\* C3: for each of the four tools the URL of the outbound request is
\* base_url + "/hcmRestApi/resources/" + api_version + resource_path, and the
\* base URL and the resource root each occur exactly once in it
C3_UrlIsBaseRootVersionPath ==
    \A i \in Invocations :
        Dispatched(i) =>
            /\ inv[i].req.url = lazy["HCM_BASE_URL"].val \o <<"/hcmRestApi/resources/">>
                                    \o lazy["HCM_API_VERSION"].val \o ResourcePath(inv[i])
            /\ Occurrences(lazy["HCM_BASE_URL"].val, inv[i].req.url) = 1
            /\ Occurrences(<<"/hcmRestApi/resources/">>, inv[i].req.url) = 1

\* C4: every request hcm_api_call dispatches, whatever the method, the flag and
\* the timeout, carries Authorization: Basic with the configured username and password
C4_EveryRequestHasBasicAuth ==
    api.nreq > 0 =>
        /\ lazy["HCM_USERNAME"].st = "ok"
        /\ lazy["HCM_PASSWORD"].st = "ok"
        /\ \E h \in api.req.headers :
              /\ h.name = "Authorization"
              /\ h.value = <<"Basic ", "b64[">> \o lazy["HCM_USERNAME"].val \o <<":">>
                               \o lazy["HCM_PASSWORD"].val \o <<"]">>

C4_Witness ==
    /\ api.pc = "awaiting"
    /\ api.method = "POST"
    /\ ~api.enable_framework_version
    /\ IsSome(api.set_timeout)
    /\ "Authorization" \in HeaderNames(api.req)

\* C5: the REST-Framework-Version header is on the outbound request of the
\* person lookup, the absence-type lookup and the projection, not on that of the
\* plan balances; hcm_api_call attaches it exactly when enable_framework_version
C5_FrameworkHeaderPolicy ==
    \A i \in Invocations :
        Dispatched(i) =>
            /\ ("REST-Framework-Version" \in HeaderNames(inv[i].req))
                  = (inv[i].tool # AbsenceBalancesTool)
            /\ ("REST-Framework-Version" \in HeaderNames(inv[i].req))
                  = inv[i].call.enable_framework_version

C5_Witness ==
    \E i \in Invocations :
        /\ Dispatched(i)
        /\ inv[i].tool = AbsenceBalancesTool
        /\ "REST-Framework-Version" \notin HeaderNames(inv[i].req)
        /\ "Authorization" \in HeaderNames(inv[i].req)

C7_TransportErrorIsHttp ==
    api.pc = "done" /\ api.resp.kind = "transport" =>
        ~api.ret.ok /\ api.ret.variant = "Http"

\* the request of an invocation failed: no response, a non-2xx status, or a
\* body that is not a readable JSON document
RequestFailed(resp) ==
    \/ resp.kind = "transport"
    \/ resp.kind = "http" /\ ~(resp.status \in 200..299)
    \/ resp.kind = "http" /\ (~resp.readable \/ ~IsSome(resp.json))

\* C8: an invocation issues at most one outbound request, and when that request
\* fails it returns an error without issuing another
C8_NoRetry ==
    \A i \in Invocations :
        /\ inv[i].nreq <= 1
        /\ RequestFailed(inv[i].resp) =>
              inv[i].pc = "done" /\ ~inv[i].result.ok /\ inv[i].nreq = 1

C8_Witness ==
    \E i \in Invocations :
        inv[i].pc = "done" /\ inv[i].resp.kind = "transport" /\ inv[i].nreq = 1

RequiredMissing == ~IsSome(env["HCM_BASE_URL"]) \/ ~IsSome(env["HCM_PASSWORD"])

\* C9: with HCM_BASE_URL or HCM_PASSWORD unset, OracleHCMMCPFactory::new fails:
\* no bridge instance exists, no tool invocation starts, no request is issued
C9_NoInstanceWithoutConfig ==
    RequiredMissing =>
        /\ instances = 0
        /\ \A i \in Invocations : inv[i].pc = "idle" /\ inv[i].nreq = 0
        /\ lazy["HTTP_CLIENT"].st = "uninit"

\* new() ran, and failed on the password after the base URL resolved
C9_Witness ==
    /\ RequiredMissing
    /\ lazy["HCM_BASE_URL"].st = "ok"
    /\ lazy["HCM_PASSWORD"].st = "err"
    /\ instances = 0

\* C10: with a required configuration value missing the process fails at
\* startup and never reaches the state in which it listens and accepts sessions
C10_MissingConfigFailsAtStartup ==
    RequiredMissing => mainPc \notin {"listening", "draining"}


\* the caller sees HcmError::MissingConfig as an error whose text is the
\* "{key} must be set: {e}" of load_env_var
IsMissingConfig(result) == ~result.ok /\ Contains(<<" must be set: ">>, result.message)

\* C11: once OracleHCMMCPFactory::new has succeeded, no tool invocation returns
\* a MissingConfig error, whatever the environment has become since
C11_NoMissingConfigAfterNew ==
    instances > 0 =>
        \A i \in Invocations :
            Started(i) => ~IsMissingConfig(inv[i].result) /\ inv[i].api.variant # "MissingConfig"

\* a tool invoked while a required variable was unset went all the way to a request
C11_Witness ==
    /\ instances > 0
    /\ \E i \in Invocations : inv[i].envMissing /\ Dispatched(i) /\ inv[i].pc = "done"

C13_TimeoutPerCall ==
    api.nreq > 0 =>
        EffectiveTimeout(api.req) =
            IF IsSome(api.set_timeout) THEN Unwrap(api.set_timeout) ELSE 30

\* a call without override was sent right after a call with the 60 s override
C13_Witness ==
    /\ api.nreq > 0
    /\ api.set_timeout = None
    /\ api.prev = Some(Some(ProjectionTimeoutSecs))
    /\ EffectiveTimeout(api.req) = 30


UnsupportedCall == api.pc \in {"awaiting", "done"} /\ api.method \notin {"GET", "POST"}

ApiConfigured ==
    /\ lazy["HCM_BASE_URL"].st = "ok"
    /\ lazy["HTTP_CLIENT"].st = "ok"
    /\ lazy["HCM_PASSWORD"].st = "ok"

\* C14 as stated: every hcm_api_call with a method other than GET or POST
\* returns InvalidParams, and dispatches nothing
C14_UnsupportedMethodAlwaysInvalidParams ==
    UnsupportedCall => api.nreq = 0 /\ api.ret.variant = "InvalidParams"

\* C14: an hcm_api_call with a method other than GET or POST dispatches nothing;
\* it returns InvalidParams when the base URL and the password are resolved and
\* the HTTP client is built, these three being checked before the method
C14_UnsupportedMethod ==
    UnsupportedCall =>
        /\ api.nreq = 0
        /\ api.pc = "done"
        /\ ~api.ret.ok
        /\ ApiConfigured => api.ret.variant = "InvalidParams"

\* a PUT or DELETE call returned InvalidParams with the configuration in place
C14_Witness ==
    /\ UnsupportedCall
    /\ ApiConfigured
    /\ api.ret.variant = "InvalidParams"
    /\ api.req = NoRequest


\* the invocation got a 2xx response whose body decoded as JSON
GotJson(i) == inv[i].pc = "done" /\ inv[i].resp.kind = "http" /\ IsSome(inv[i].resp.json)
             /\ is_success(inv[i].resp.status) /\ inv[i].resp.readable

\* C15: a person-id lookup for a non-empty identifier whose query answered with
\* an empty items array returns INVALID_PARAMS, and the message ends with the
\* identifier exactly as the caller gave it
C15_NotFoundNamesIdentifier ==
    \A i \in Invocations :
        (/\ inv[i].tool = PersonIdTool
         /\ GotJson(i)
         /\ Idx(Unwrap(inv[i].resp.json), "items") = JArr(<<>>))
        => /\ ~inv[i].result.ok
           /\ inv[i].result.code = "INVALID_PARAMS"
           /\ inv[i].result.message =
                  <<"PersonID not found for Westpac Employee ID: ">> \o inv[i].args.wbc_employee_id

\* the lookup of "m1", sent as M1, found nothing and the error names "m1"
C15_Witness ==
    \E i \in Invocations :
        /\ inv[i].tool = PersonIdTool
        /\ GotJson(i)
        /\ Idx(Unwrap(inv[i].resp.json), "items") = JArr(<<>>)
        /\ inv[i].args.wbc_employee_id = <<"m", "1">>
        /\ Contains(<<"M", "1">>, inv[i].req.url)
        /\ Contains(<<"m", "1">>, inv[i].result.message)

\* items is a non-empty array and its first element has a string PersonId
HasFirstPersonId(j) ==
    /\ Idx(j, "items").t = "arr"
    /\ Len(Idx(j, "items").v) > 0
    /\ Idx(Idx(j, "items").v[1], "PersonId").t = "str"

\* C16: on a 2xx JSON response the person-id lookup succeeds exactly when items
\* is a non-empty array whose first element has a string PersonId, the result
\* is then that string itself; otherwise the result is an error
C16_PersonIdExactlyFirstItem ==
    \A i \in Invocations :
        (inv[i].tool = PersonIdTool /\ GotJson(i)) =>
            LET j == Unwrap(inv[i].resp.json)
            IN  /\ inv[i].result.ok <=> HasFirstPersonId(j)
                /\ inv[i].result.ok =>
                       inv[i].result.value =
                           JObj([PersonId |-> JStr(Idx(Idx(j, "items").v[1], "PersonId").v)])
                /\ ~inv[i].result.ok => inv[i].result.value = JNull

\* a response whose first item has a numeric PersonId and whose second item has
\* a string one gave an error
C16_Witness ==
    \E i \in Invocations :
        /\ inv[i].tool = PersonIdTool
        /\ GotJson(i)
        /\ Idx(Unwrap(inv[i].resp.json), "items") = JArr(<<ItemBad(PersonIdTool), ItemOk(PersonIdTool)>>)
        /\ ~inv[i].result.ok


\* the value between the quotes of q=assignments.WorkerNumber='...' in a path
\* made of the fixed head, the value and the fixed tail
FilterValue(path) == SubSeq(path, 3, Len(path) - 1)

\* C17: every person-id lookup that reaches the remote API queries for the
\* upper-cased identifier, and the lookup of the upper-cased identifier issues
\* the same filter value
C17_UppercaseIdempotent ==
    \A i \in Invocations :
        (inv[i].tool = PersonIdTool /\ Dispatched(i)) =>
            LET x == inv[i].args.wbc_employee_id
            IN  /\ FilterValue(inv[i].call.path) = to_uppercase(x)
                /\ FilterValue(PersonIdPath(to_uppercase(x))) = FilterValue(inv[i].call.path)
                /\ Contains(inv[i].call.path, inv[i].req.url)

\* the lookup of an identifier that upper-casing changes, and lengthens
C17_Witness ==
    \E i \in Invocations :
        /\ inv[i].tool = PersonIdTool
        /\ Dispatched(i)
        /\ inv[i].args.wbc_employee_id = <<"m", "sharp_s">>
        /\ FilterValue(inv[i].call.path) = <<"M", "S", "S">>


\* the items of a decoded response, none when items is not an array
ItemsOf(j) == IF Idx(j, "items").t = "arr" THEN Idx(j, "items").v ELSE <<>>

\* the k-th smallest position of a set of positions
Kth(pos, k) == CHOOSE p \in pos : Cardinality({q \in pos : q < p}) = k - 1

WellFormedBalance(item) ==
    /\ Idx(item, "planName").t = "str"
    /\ Idx(item, "multiYearCarryOverFlag").t = "bool"
    /\ Idx(item, "planStatusMeaning").t = "str"
    /\ Idx(item, "formattedBalance").t = "str"
    /\ Idx(item, "balanceCalculationDate").t = "str"
    /\ IsSome(ParseYMD(Idx(item, "balanceCalculationDate").v))

BalancePositions(items) == {p \in 1..Len(items) : WellFormedBalance(items[p])}

BalanceMatches(out, item) ==
    /\ Idx(out, "planName") = Idx(item, "planName")
    /\ Idx(out, "carryOver") = Idx(item, "multiYearCarryOverFlag")
    /\ Idx(out, "planStatus") = Idx(item, "planStatusMeaning")
    /\ Idx(out, "formattedBalance") = Idx(item, "formattedBalance")
    /\ Idx(out, "balanceCalculationDate").t = "str"

BalancesKept(items, out) ==
    /\ Len(out) = Cardinality(BalancePositions(items))
    /\ \A k \in 1..Len(out) : BalanceMatches(out[k], items[Kth(BalancePositions(items), k)])

\* C18: on a 2xx JSON response the plan-balances tool succeeds, and its list
\* holds one entry for each well-formed item of the response, in the order of
\* the response, and none for the others
C18_BalancesKeepWellFormed ==
    \A i \in Invocations :
        (inv[i].tool = AbsenceBalancesTool /\ GotJson(i)) =>
            /\ inv[i].result.ok
            /\ Idx(inv[i].result.value, "absence_balances").t = "arr"
            /\ BalancesKept(ItemsOf(Unwrap(inv[i].resp.json)),
                            Idx(inv[i].result.value, "absence_balances").v)

\* an item without formattedBalance came first and was omitted, the well-formed
\* item after it was kept
C18_Witness ==
    \E i \in Invocations :
        /\ inv[i].tool = AbsenceBalancesTool
        /\ GotJson(i)
        /\ ItemsOf(Unwrap(inv[i].resp.json))
               = <<ItemBad(AbsenceBalancesTool), ItemOk(AbsenceBalancesTool)>>
        /\ Len(Idx(inv[i].result.value, "absence_balances").v) = 1
        /\ Idx(Idx(inv[i].result.value, "absence_balances").v[1], "planName") = JStr(<<"Annual">>)

WellFormedAbsenceType(item) ==
    /\ Idx(item, "AbsenceTypeId").t = "str"
    /\ Idx(item, "EmployerId").t = "str"
    /\ Idx(item, "AbsenceTypeName").t = "str"

AbsenceTypePositions(items) == {p \in 1..Len(items) : WellFormedAbsenceType(items[p])}

AbsenceTypesKept(items, out) ==
    /\ Len(out) = Cardinality(AbsenceTypePositions(items))
    /\ \A k \in 1..Len(out) : out[k] = items[Kth(AbsenceTypePositions(items), k)]

\* C19: on a 2xx JSON response the absence-types tool succeeds, and its list is
\* the items of the response that have the three string fields, in the order
\* of the response; it is empty when none has them
C19_AbsenceTypesKeepWellFormed ==
    \A i \in Invocations :
        (inv[i].tool = AbsenceTypesTool /\ GotJson(i)) =>
            /\ inv[i].result.ok
            /\ Idx(inv[i].result.value, "absence_types").t = "arr"
            /\ AbsenceTypesKept(ItemsOf(Unwrap(inv[i].resp.json)),
                                Idx(inv[i].result.value, "absence_types").v)

\* a response whose only item lacks AbsenceTypeName gave an empty list
C19_Witness ==
    \E i \in Invocations :
        /\ inv[i].tool = AbsenceTypesTool
        /\ GotJson(i)
        /\ ItemsOf(Unwrap(inv[i].resp.json)) = <<ItemBad(AbsenceTypesTool)>>
        /\ inv[i].result = ToolOk(JObj([absence_types |-> JArr(<<>>)]))


\* s is ten characters dddd-dd-dd that name a day of the calendar
IsYMD(s) ==
    /\ Len(s) = 10
    /\ s[5] = "-" /\ s[8] = "-"
    /\ \A p \in {1, 2, 3, 4, 6, 7, 9, 10} : s[p] \in DigitChars
    /\ ValidDate(DigitsValue(SubSeq(s, 1, 4)), DigitsValue(SubSeq(s, 6, 7)),
                 DigitsValue(SubSeq(s, 9, 10)))

\* the characters of YYYY-MM-DD put in the order DD-MM-YYYY
DayFirst(s) == <<s[9], s[10], "-", s[6], s[7], "-", s[1], s[2], s[3], s[4]>>

DateOfItem(item) == Idx(item, "balanceCalculationDate").v

\* C20: a plan-balances item that is otherwise well formed and whose
\* balanceCalculationDate is a calendar date written YYYY-MM-DD is emitted, with
\* the same day, month and year written DD-MM-YYYY
C20_DateDayFirst ==
    \A i \in Invocations :
        (inv[i].tool = AbsenceBalancesTool /\ GotJson(i)) =>
            LET items == ItemsOf(Unwrap(inv[i].resp.json))
                out == Idx(inv[i].result.value, "absence_balances").v
            IN  /\ Len(out) = Cardinality(BalancePositions(items))
                /\ \A p \in 1..Len(items) :
                       (/\ Idx(items[p], "planName").t = "str"
                        /\ Idx(items[p], "multiYearCarryOverFlag").t = "bool"
                        /\ Idx(items[p], "planStatusMeaning").t = "str"
                        /\ Idx(items[p], "formattedBalance").t = "str"
                        /\ Idx(items[p], "balanceCalculationDate").t = "str"
                        /\ IsYMD(DateOfItem(items[p])))
                       => /\ p \in BalancePositions(items)
                          /\ Idx(out[Cardinality({q \in BalancePositions(items) : q <= p})],
                                 "balanceCalculationDate")
                                 = JStr(DayFirst(DateOfItem(items[p])))

\* the item dated 2025-12-31 was emitted dated 31-12-2025
C20_Witness ==
    \E i \in Invocations :
        /\ inv[i].tool = AbsenceBalancesTool
        /\ GotJson(i)
        /\ DateOfItem(ItemsOf(Unwrap(inv[i].resp.json))[1])
               = <<"2", "0", "2", "5", "-", "1", "2", "-", "3", "1">>
        /\ Idx(Idx(inv[i].result.value, "absence_balances").v[1], "balanceCalculationDate")
               = JStr(<<"3", "1", "-", "1", "2", "-", "2", "0", "2", "5">>)


\* the entry object of the payload a projection invocation sent
EntryOf(slot) == Idx(Unwrap(Unwrap(slot.req.body)), "entry")

\* s is ten characters dd-dd-dddd that name a day of the calendar
IsDMY(s) ==
    /\ Len(s) = 10
    /\ s[3] = "-" /\ s[6] = "-"
    /\ \A p \in {1, 2, 4, 5, 7, 8, 9, 10} : s[p] \in DigitChars
    /\ ValidDate(DigitsValue(SubSeq(s, 7, 10)), DigitsValue(SubSeq(s, 4, 5)),
                 DigitsValue(SubSeq(s, 1, 2)))

\* the characters of DD-MM-YYYY put in the order YYYY-MM-DD
YearFirst(s) == <<s[7], s[8], s[9], s[10], "-", s[4], s[5], "-", s[1], s[2]>>

TodayTexts == {FormatYMD(t) : t \in ProjectionDays}

ProjectionSent(i) == inv[i].tool = ProjectedBalanceTool /\ Dispatched(i)

\* C21: the payload of a projection has startDate equal to endDate; for a
\* balance_as_of_date that is a calendar date written DD-MM-YYYY both are that
\* date written YYYY-MM-DD, for one that is absent or does not parse both are
\* the current local date, and in each case the request is sent
C21_ProjectionDates ==
    \A i \in Invocations :
        inv[i].tool = ProjectedBalanceTool /\ Started(i) =>
            /\ (lazy["HTTP_CLIENT"].st = "ok" => Dispatched(i))
            /\ Dispatched(i) =>
                   LET d == inv[i].args.balance_as_of_date
                       start == Idx(EntryOf(inv[i]), "startDate")
                   IN  /\ start = Idx(EntryOf(inv[i]), "endDate")
                       /\ start.t = "str"
                       /\ (IsSome(d) /\ IsDMY(Unwrap(d))) => start.v = YearFirst(Unwrap(d))
                       /\ (~IsSome(d) \/ ~IsSome(ParseDMY(Unwrap(d)))) => start.v \in TodayTexts

\* the projection as of 31-12-2025 was sent with both dates 2025-12-31
C21_Witness ==
    \E i \in Invocations :
        /\ ProjectionSent(i)
        /\ inv[i].args.balance_as_of_date
               = Some(<<"3", "1", "-", "1", "2", "-", "2", "0", "2", "5">>)
        /\ Idx(EntryOf(inv[i]), "startDate")
               = JStr(<<"2", "0", "2", "5", "-", "1", "2", "-", "3", "1">>)
        /\ Idx(EntryOf(inv[i]), "endDate")
               = JStr(<<"2", "0", "2", "5", "-", "1", "2", "-", "3", "1">>)


\* C22: a projection invocation that reaches the network sends a POST with a
\* timeout of 60 seconds set on the request, and a payload whose openEndedFlag
\* is "N", uom is "H" and three durations are 7.6, whatever its inputs
C22_ProjectionRequestFixedPart ==
    \A i \in Invocations :
        ProjectionSent(i) =>
            /\ inv[i].req.method = "POST"
            /\ inv[i].req.timeout = Some(60)
            /\ EffectiveTimeout(inv[i].req) = 60
            /\ Idx(EntryOf(inv[i]), "openEndedFlag") = JStr(<<"N">>)
            /\ Idx(EntryOf(inv[i]), "uom") = JStr(<<"H">>)
            /\ Idx(EntryOf(inv[i]), "duration") = JNum("7.6")
            /\ Idx(EntryOf(inv[i]), "startDateDuration") = JNum("7.6")
            /\ Idx(EntryOf(inv[i]), "endDateDuration") = JNum("7.6")

\* a projection with absence type, legal entity and a date of its own was sent
C22_Witness ==
    \E i \in Invocations :
        /\ ProjectionSent(i)
        /\ inv[i].args.absence_type_id = Some(<<"A">>)
        /\ inv[i].args.balance_as_of_date
               = Some(<<"2", "9", "-", "0", "2", "-", "2", "0", "2", "4">>)
        /\ inv[i].req.timeout = Some(60)
        /\ Idx(EntryOf(inv[i]), "uom") = JStr(<<"H">>)

\* the string at result.formattedProjectedBalance of a decoded response, if any
BalanceText(j) == Idx(Idx(j, "result"), "formattedProjectedBalance")

\* C23: on a 2xx JSON response a projection returns INTERNAL_ERROR when there is
\* no string at result.formattedProjectedBalance, and otherwise succeeds with
\* that string as projected_balance and the caller's absence_type_id
C23_ProjectionResult ==
    \A i \in Invocations :
        (inv[i].tool = ProjectedBalanceTool /\ GotJson(i)) =>
            IF BalanceText(Unwrap(inv[i].resp.json)).t = "str"
            THEN /\ inv[i].result.ok
                 /\ Idx(inv[i].result.value, "projected_balance")
                        = BalanceText(Unwrap(inv[i].resp.json))
                 /\ Idx(inv[i].result.value, "absence_type_id")
                        = IF IsSome(inv[i].args.absence_type_id)
                          THEN JStr(Unwrap(inv[i].args.absence_type_id)) ELSE JNull
            ELSE /\ ~inv[i].result.ok
                 /\ inv[i].result.code = "INTERNAL_ERROR"
                 /\ inv[i].result.value = JNull

\* a response with a null formattedProjectedBalance gave the error
C23_Witness ==
    \E i \in Invocations :
        /\ inv[i].tool = ProjectedBalanceTool
        /\ GotJson(i)
        /\ Unwrap(inv[i].resp.json) = JObj([result |-> JObj([formattedProjectedBalance |-> JNull])])
        /\ inv[i].result
               = ToolErr("INTERNAL_ERROR", <<"Failed to parse projected balance from response.">>)


Quotes == {DQ, SQ}

\* C24: a configuration value read from the environment is used without the
\* quote characters, single or double, that surrounded it
C24_QuotesStripped ==
    \A name \in EnvVars :
        (lazy[name].st = "ok" /\ IsSome(env[name])) =>
            /\ lazy[name].val # <<>>
            /\ Head(lazy[name].val) \notin Quotes
            /\ lazy[name].val[Len(lazy[name].val)] \notin Quotes


OtherPasswords == {<<"q">>, <<"p", "w">>}

\* the call of api made again in a process configured with password pw
SameCallWith(pw) ==
    hcm_api_call([lazy EXCEPT !["HCM_PASSWORD"] = OkCell(pw)], env, TRUE, api.path, api.method,
                 api.body, api.enable_framework_version, api.set_timeout)

\* C25: what a dispatched hcm_api_call writes to its span and to the log is the
\* same in a run that differs only in the configured password, although the
\* request itself, by its Authorization header, differs
C25_TracesHidePassword ==
    api.nreq > 0 =>
        \A pw \in OtherPasswords \ {lazy["HCM_PASSWORD"].val} :
            /\ SameCallWith(pw).sent
            /\ SameCallWith(pw).req # api.req
            /\ Emitted(SameCallWith(pw).req, api.resp) = Emitted(api.req, api.resp)

\* a POST with a body was answered with an error status and its text logged,
\* the span holding the Authorization header
C25_Witness ==
    /\ api.nreq > 0
    /\ api.pc = "done"
    /\ api.method = "POST"
    /\ api.resp.kind = "http"
    /\ ~is_success(api.resp.status)
    /\ Len(Emitted(api.req, api.resp).lines) = 3
    /\ \E h \in Emitted(api.req, api.resp).span.request_headers :
           h.name = "Authorization" /\ h.value = <<"Sensitive">>


\* the invocation of slot i run by itself in a process of the same environment
\* that has resolved nothing yet, its HTTP client building as it did here
Alone(i) ==
    ToolStart(inv[i].tool, [name \in LazyNames |-> Uninit], env,
              lazy["HTTP_CLIENT"].st = "ok", inv[i].args, CHOOSE t \in Days : TRUE)

\* C26: whatever other invocations run before or beside it, an invocation sends
\* the request, and returns the result, that it would by itself with the same
\* input and the same response
C26_InvocationsIndependent ==
    \A i \in Slots :
        inv[i].pc # "idle" =>
            /\ inv[i].req = Alone(i).req
            /\ (inv[i].nreq > 0) = Alone(i).sent
            /\ inv[i].nreq <= 1
            /\ inv[i].pc = "done" =>
                   inv[i].result =
                       IF Alone(i).sent
                       THEN ToolFinish(inv[i].tool, inv[i].args, hcm_api_call_finish(inv[i].resp))
                       ELSE Alone(i).result

\* an invocation was answered while one of another tool was waiting for its answer
C26_Witness ==
    \E i, j \in Slots :
        /\ inv[i].pc = "awaiting"
        /\ inv[j].pc = "done" /\ inv[j].nreq = 1
        /\ inv[j].resp.kind = "http"
        /\ inv[i].tool # inv[j].tool


\* the request of the plan-balances tool for args in the process as it is
BalancesRequestFor(args) ==
    get_all_absence_balances_for_employee_hcm_person_id(lazy, env, TRUE, args).req

\* C27: the request of a plan-balances invocation is the request of every
\* plan-balances invocation for the same hcm_person_id, whatever their
\* balance_as_of_date, absence_type_id and legal_entity_id
C27_BalancesRequestOnlyPersonId ==
    \A i \in Invocations :
        (inv[i].tool = AbsenceBalancesTool /\ Dispatched(i)) =>
            \A other \in BalanceInputs :
                other.hcm_person_id = inv[i].args.hcm_person_id =>
                    BalancesRequestFor(other) = inv[i].req

\* a plan-balances invocation with a date, an absence type and a legal entity
\* was sent
C27_Witness ==
    \E i \in Invocations :
        /\ inv[i].tool = AbsenceBalancesTool
        /\ Dispatched(i)
        /\ IsSome(inv[i].args.balance_as_of_date)
        /\ inv[i].args.absence_type_id = Some(<<"A">>)
        /\ inv[i].args.legal_entity_id = Some(<<"L">>)
        /\ BalancesRequestFor(AbsenceBalanceRequest(<<"7">>, None, None, None)) = inv[i].req


\* C28: an invocation that waits for the remote API comes to its return; an
\* invocation whose request timed out returned an error with a code; and a
\* returned invocation keeps the one outcome it has
C28_EveryInvocationReturns ==
    /\ \A i \in Invocations : (inv[i].pc = "awaiting") ~> (inv[i].pc = "done")
    /\ [](\A i \in Invocations :
            (inv[i].pc = "done" /\ TimedOut(inv[i])) =>
                (~inv[i].result.ok /\ inv[i].result.code = "INTERNAL_ERROR"))
    /\ [][\A i \in Invocations : inv[i].pc = "done" => inv'[i] = inv[i]]_vars

\* a request without override ran into the client's timeout, and the
\* invocation returned the error
C28_Witness ==
    \E i \in Invocations :
        /\ inv[i].pc = "done"
        /\ Dispatched(i)
        /\ inv[i].req.timeout = None
        /\ inv[i].elapsed = ClientTimeoutSecs
        /\ inv[i].resp = TransportFailure
        /\ ~inv[i].result.ok

====
